---- MODULE Spec2Model ----
(***************************************************************************)
(* Model of src/index.js: the paginated enumeration of the remote file     *)
(* catalog (fetchAllFiles), the classifier (resolveFileInfo), the download *)
(* loop (downloadFiles) and the top-level async IIFE that runs them.       *)
(*                                                                         *)
(* Strings are sequences of tokens.  A token is either one of the          *)
(* characters the code inspects ("/", "?", ".") or an opaque run of other  *)
(* characters ("a.zip", "https:").  A path is a sequence of segments, each *)
(* segment a string.  null/undefined is the one-token string Null.         *)
(***************************************************************************)
EXTENDS Integers, Sequences, FiniteSets, TLC

\* ------------------------------------------------------------------ bounds
MaxPages == 2
MaxEdges == 2
MaxFiles == 3
MaxUrlLen == 3

\* ------------------------------------------------------------- strings
Null == <<"null">>

Alphabet == {"/", "?", ".", "a"}

RECURSIVE StringsUpTo(_)
StringsUpTo(n) ==
    IF n = 0 THEN {<<>>}
    ELSE LET shorter == StringsUpTo(n - 1)
         IN  shorter \cup {Append(s, c) : s \in {t \in shorter : Len(t) = n - 1}, c \in Alphabet}

\* JavaScript truthiness of a string-or-null value: null, undefined and ""
\* are falsy (the test `!url`).
Truthy(u) == u # Null /\ u # <<>>

\* url.split("?")[0]: the part of url before its first "?" (all of it when
\* there is none).
CleanUrl(url) ==
    LET qs == {i \in 1..Len(url) : url[i] = "?"}
    IN  IF qs = {} THEN url
        ELSE SubSeq(url, 1, (CHOOSE i \in qs : \A j \in qs : i <= j) - 1)

\* Mutant of Basename: trailing separators are not ignored, the name is
\* whatever follows the last separator.
Basename_AfterLastSeparator(p) ==
    LET seps == {i \in 1..Len(p) : p[i] = "/"}
    IN  IF seps = {} THEN p
        ELSE SubSeq(p, (CHOOSE i \in seps : \A j \in seps : j <= i) + 1, Len(p))

\* path.basename(p) (posix): scan from the end, ignore trailing separators,
\* take what follows the last remaining separator.
Basename(p) ==
    LET nonSep == {i \in 1..Len(p) : p[i] # "/"}
    IN  IF nonSep = {} THEN <<>>
        ELSE LET end   == CHOOSE i \in nonSep : \A j \in nonSep : j <= i
                 seps  == {i \in 1..end : p[i] = "/"}
                 start == IF seps = {} THEN 1
                          ELSE (CHOOSE i \in seps : \A j \in seps : j <= i) + 1
             IN  SubSeq(p, start, end)

\* The directory the program writes under (OUTPUT_DIR, normalised).
OUTPUT_DIR == << <<"shopify_files">> >>

\* path.join(OUTPUT_DIR, folder, fileName): the non-empty arguments joined
\* and normalised; fileName holds no separator (it is a basename), so it is
\* one segment, dropped when "" or ".", and popping the folder when "..".
PathJoin(dir, folder, fileName) ==
    IF fileName = <<>> \/ fileName = <<".">> THEN Append(dir, <<folder>>)
    ELSE IF fileName = <<".", ".">> THEN dir
    ELSE dir \o << <<folder>>, fileName >>

\* The sub-directories created at start-up.
subdirs == {"generic", "images", "videos", "models", "external", "unknown"}

Directories == {OUTPUT_DIR} \cup {Append(OUTPUT_DIR, <<d>>) : d \in subdirs}

\* ------------------------------------------------------------- records
\* A node of the files connection.  image_url stands for file.image?.url and
\* originalSource_url for file.originalSource?.url: Null when the parent
\* object or the field is missing.
Node(k, id, u, iu, ou, eu) ==
    [__typename |-> k, id |-> id, url |-> u, image_url |-> iu,
     originalSource_url |-> ou, embeddedUrl |-> eu]

\* Mutant of resolveFileInfo: the url is read before the switch, so a record
\* of an unrecognised type keeps its direct url.
resolveFileInfo_UnknownKeepsUrl(file) ==
    CASE file.__typename = "GenericFile"   -> [url |-> file.url, folder |-> "generic"]
      [] file.__typename = "MediaImage"    -> [url |-> file.image_url, folder |-> "images"]
      [] file.__typename = "Video"         -> [url |-> file.originalSource_url, folder |-> "videos"]
      [] file.__typename = "ExternalVideo" -> [url |-> file.embeddedUrl, folder |-> "external"]
      [] file.__typename = "Model3d"       -> [url |-> file.originalSource_url, folder |-> "models"]
      [] OTHER                             -> [url |-> file.url, folder |-> "unknown"]

\* Mutant of resolveFileInfo: the 3D-model case reads the direct url field.
resolveFileInfo_ModelReadsUrl(file) ==
    CASE file.__typename = "GenericFile"   -> [url |-> file.url, folder |-> "generic"]
      [] file.__typename = "MediaImage"    -> [url |-> file.image_url, folder |-> "images"]
      [] file.__typename = "Video"         -> [url |-> file.originalSource_url, folder |-> "videos"]
      [] file.__typename = "ExternalVideo" -> [url |-> file.embeddedUrl, folder |-> "external"]
      [] file.__typename = "Model3d"       -> [url |-> file.url, folder |-> "models"]
      [] OTHER                             -> [url |-> Null, folder |-> "unknown"]

resolveFileInfo(file) ==
    CASE file.__typename = "GenericFile"   -> [url |-> file.url, folder |-> "generic"]
      [] file.__typename = "MediaImage"    -> [url |-> file.image_url, folder |-> "images"]
      [] file.__typename = "Video"         -> [url |-> file.originalSource_url, folder |-> "videos"]
      [] file.__typename = "ExternalVideo" -> [url |-> file.embeddedUrl, folder |-> "external"]
      [] file.__typename = "Model3d"       -> [url |-> file.originalSource_url, folder |-> "models"]
      [] OTHER                             -> [url |-> Null, folder |-> "unknown"]

\* Lines 155-156 of downloadFiles.
FileNameOf(url) == Basename(CleanUrl(url))

\* Line 157 of downloadFiles.
FilePathOf(file) ==
    LET info == resolveFileInfo(file)
    IN  PathJoin(OUTPUT_DIR, info.folder, FileNameOf(info.url))

HasUrl(file) == Truthy(resolveFileInfo(file).url)

\* ------------------------------------------------------------- inputs
\* Type names the endpoint may report: the five the query selects, the
\* spelling "Model3D", and a type the classifier does not know.
TypeNames == {"GenericFile", "MediaImage", "Video", "ExternalVideo",
              "Model3d", "Model3D", "SomethingElse"}

UrlA == <<"h", "/", "a.zip">>
UrlADup == <<"a.zip", "?", "v">>
UrlY == <<"https:", "/", "/", "x", "/", "y.mp4">>
UrlExample == <<"https:", "/", "/", "cdn.example.com", "/", "path", "/", "image.png", "?", "v=123">>

\* <<p, i>> is the cursor of the i-th edge of page p and the id of its node;
\* <<0, 0>> is the null cursor, and the id of a node that needs none.
NullCursor == <<0, 0>>

\* The records of the one-page catalogs: two generic files with the same
\* target path, an image without its image field, an external video.
CatalogNodes ==
    { Node("GenericFile", NullCursor, UrlA, Null, Null, Null),
      Node("GenericFile", NullCursor, UrlADup, Null, Null, Null),
      Node("MediaImage", NullCursor, Null, Null, Null, Null),
      Node("ExternalVideo", NullCursor, Null, Null, Null, UrlY) }

\* Records for the classifier: every type name with every combination of
\* present and absent URL fields, each field holding its own URL.
FieldNodes ==
    { Node(k, NullCursor, u, iu, ou, eu) :
        k \in TypeNames,
        u \in {Null, <<"u">>}, iu \in {Null, <<"i">>},
        ou \in {Null, <<"o">>}, eu \in {Null, <<"e">>} }

\* Records for the file-name derivation: a generic file with any short URL.
UrlNodes ==
    { Node("GenericFile", NullCursor, u, Null, Null, Null) :
        u \in StringsUpTo(MaxUrlLen) \cup {UrlExample} }

\* The records of the multi-page catalogs, all distinct: a generic file at
\* the odd positions of a page, an image without its image field at the
\* even ones.
PagingNode(p, i) ==
    IF i % 2 = 1 THEN Node("GenericFile", <<p, i>>, UrlA, Null, Null, Null)
    ELSE Node("MediaImage", <<p, i>>, Null, Null, Null, Null)

RECURSIVE SeqsUpTo(_, _)
SeqsUpTo(S, n) ==
    IF n = 0 THEN {<<>>}
    ELSE LET shorter == SeqsUpTo(S, n - 1)
         IN  shorter \cup {Append(s, x) : s \in {t \in shorter : Len(t) = n - 1}, x \in S}

PageOf(p, nodes, hnp, isNull) ==
    [edges |-> [i \in 1..Len(nodes) |-> [cursor |-> <<p, i>>, node |-> nodes[i]]],
     edgesNull |-> isNull, hasNextPage |-> hnp]

PagesAt(p) ==
    {PageOf(p, [i \in 1..n |-> PagingNode(p, i)], h, FALSE) : n \in 0..MaxEdges, h \in BOOLEAN}
      \cup {PageOf(p, <<>>, h, TRUE) : h \in BOOLEAN}

\* data.data.files.edges || []
EdgesOf(pg) == IF pg.edgesNull THEN <<>> ELSE pg.edges

\* Scripted endpoints of up to MaxPages pages: page p+1 exists only if page
\* p announces it and has an edge to resume after.
RECURSIVE ScriptsFrom(_)
ScriptsFrom(p) ==
    {<<pg>> : pg \in PagesAt(p)}
      \cup (IF p = MaxPages THEN {}
            ELSE {<<pg>> \o rest :
                    pg \in {q \in PagesAt(p) : q.hasNextPage /\ EdgesOf(q) # <<>>},
                    rest \in ScriptsFrom(p + 1)})

\* One-page endpoints serving up to MaxFiles catalog records, or one record
\* of the classifier's or the file-name derivation's inputs.
SinglePageScripts ==
    {<<PageOf(1, ns, FALSE, FALSE)>> : ns \in SeqsUpTo(CatalogNodes, MaxFiles)}
      \cup {<<PageOf(1, <<n>>, FALSE, FALSE)>> : n \in FieldNodes \cup UrlNodes}

Scripts == ScriptsFrom(1) \cup SinglePageScripts

RECURSIVE NodesOfScript(_)
NodesOfScript(s) ==
    IF s = <<>> THEN {}
    ELSE {EdgesOf(Head(s))[i].node : i \in 1..Len(EdgesOf(Head(s)))} \cup NodesOfScript(Tail(s))

TargetsOfScript(s) == {FilePathOf(n) : n \in {m \in NodesOfScript(s) : HasUrl(m)}} \ Directories

\* --------------------------------------------------------------- state
VARIABLES
    script,       \* the endpoint: the pages it serves, in request order
    fs,           \* paths of the regular files under OUTPUT_DIR
    run,          \* how many times the program has been started
    pc,           \* where the program is suspended
    exitCode,     \* the exit code of the process
    errMsg,       \* what the top-level catch printed ("none" if nothing)
    allFiles,     \* fetchAllFiles: accumulated nodes
    hasNextPage,  \* fetchAllFiles: loop condition
    cursor,       \* fetchAllFiles: cursor of the next request
    page,         \* fetchAllFiles: page counter
    timerArmed,   \* fetchAllFiles: the 15 s abort timer is pending
    files,        \* downloadFiles: its argument
    downloaded,   \* downloadFiles: counter
    total,        \* downloadFiles: files.length
    idx,          \* downloadFiles: position of the for-of iterator
    summary,      \* the final "All files processed" line
    netInFlight,  \* network operations issued and not yet settled
    requests,     \* history: the cursor sent with each page request
    received,     \* history: pages parsed without error
    enumResult,   \* history: "none", "returned" or "failed"
    log,          \* history: the outcome of each record processed
    fetches,      \* history: index of each record a content fetch was issued for
    clobbered,    \* history: a write hit a path that already held a file
    fsAtStart,    \* history: fs when this run started
    prev          \* history: what the previous run ended with

progVars == <<pc, exitCode, errMsg, allFiles, hasNextPage, cursor, page, timerArmed,
              files, downloaded, total, idx, summary, netInFlight>>
histVars == <<requests, received, enumResult, log, fetches, clobbered, fsAtStart, prev>>
vars == <<script, fs, run, progVars, histVars>>

NoSummary == [printed |-> FALSE, downloaded |-> 0, total |-> 0]
NoPrev == [ran |-> FALSE, completed |-> FALSE, files |-> <<>>, downloaded |-> 0,
           fetches |-> 0, failed |-> FALSE]

\* A process that has just been started: nothing of the script has run.
Fresh ==
    /\ pc = "start"
    /\ exitCode = 0
    /\ errMsg = "none"
    /\ allFiles = <<>>
    /\ hasNextPage = TRUE
    /\ cursor = NullCursor
    /\ page = 1
    /\ timerArmed = FALSE
    /\ files = <<>>
    /\ downloaded = 0
    /\ total = 0
    /\ idx = 1
    /\ summary = NoSummary
    /\ netInFlight = 0
    /\ requests = <<>>
    /\ received = 0
    /\ enumResult = "none"
    /\ log = <<>>
    /\ fetches = <<>>

Init ==
    /\ script \in Scripts
    /\ fs \in SUBSET TargetsOfScript(script)
    /\ run = 1
    /\ Fresh
    /\ clobbered = FALSE
    /\ fsAtStart = fs
    /\ prev = NoPrev

\* Mutant of ExistsSync: files are never seen, only directories.
ExistsSync_SeesNoFile(p) == p \in Directories

\* fs.existsSync(p): true for a file and for a directory.
ExistsSync(p) == p \in fs \/ p \in Directories

\* ------------------------------------------------------------ start-up
\* Lines 10-13: a missing SHOPIFY_STORE or ACCESS_TOKEN ends the process
\* with exit code 1 before anything else runs.
MissingConfig ==
    /\ pc = "start"
    /\ pc' = "exited"
    /\ exitCode' = 1
    /\ UNCHANGED <<script, fs, run, errMsg, allFiles, hasNextPage, cursor, page, timerArmed,
                   files, downloaded, total, idx, summary, netInFlight, histVars>>

\* Lines 15-27 and 188-191: the sub-directories exist, the IIFE calls
\* fetchAllFiles, whose locals are initialised.
Start ==
    /\ pc = "start"
    /\ pc' = "loop"
    /\ allFiles' = <<>>
    /\ hasNextPage' = TRUE
    /\ cursor' = NullCursor
    /\ page' = 1
    /\ UNCHANGED <<script, fs, run, exitCode, errMsg, timerArmed,
                   files, downloaded, total, idx, summary, netInFlight, histVars>>

\* Lines 196-198: the catch of the IIFE prints the message; nothing sets an
\* exit code, so the process ends with the code it had.
CatchAtTop(msg) ==
    /\ pc' = "exited"
    /\ errMsg' = msg
    /\ exitCode' = exitCode

\* ------------------------------------------------------- fetchAllFiles
\* A throw inside fetchAllFiles rejects its promise; the await at line 191
\* rethrows into the catch of the IIFE, so line 194 is not reached.
fetchAllFilesThrows(msg) ==
    /\ enumResult' = "failed"
    /\ CatchAtTop(msg)

\* Lines 29-83: the loop condition holds, the timer is armed and the page
\* request is sent with the current cursor.
IssuePageRequest ==
    /\ pc = "loop"
    /\ hasNextPage
    /\ pc' = "page_fetch"
    /\ timerArmed' = TRUE
    /\ netInFlight' = netInFlight + 1
    /\ requests' = Append(requests, cursor)
    /\ UNCHANGED <<script, fs, run, exitCode, errMsg, allFiles, hasNextPage, cursor, page,
                   files, downloaded, total, idx, summary,
                   received, enumResult, log, fetches, clobbered, fsAtStart, prev>>

\* Mutant of PageFetchRejects: the error ends the loop and the pages
\* fetched so far are handed to downloadFiles.
PageFetchRejects_KeepsPartial ==
    /\ pc = "page_fetch"
    /\ netInFlight' = netInFlight - 1
    /\ enumResult' = "failed"
    /\ files' = allFiles
    /\ downloaded' = 0
    /\ total' = Len(allFiles)
    /\ idx' = 1
    /\ pc' = "dl_loop"
    /\ UNCHANGED <<script, fs, run, exitCode, errMsg, allFiles, hasNextPage, cursor, page,
                   timerArmed, summary, requests, received, log, fetches, clobbered,
                   fsAtStart, prev>>

\* Lines 84-86: the request fails at the transport level; the timer is not
\* cleared on this path.
PageFetchRejects ==
    /\ pc = "page_fetch"
    /\ netInFlight' = netInFlight - 1
    /\ fetchAllFilesThrows("Network error")
    /\ UNCHANGED <<script, fs, run, allFiles, hasNextPage, cursor, page, timerArmed,
                   files, downloaded, total, idx, summary,
                   requests, received, log, fetches, clobbered, fsAtStart, prev>>

\* Line 71: the timer fires while the request is pending; abort() rejects
\* the fetch, which lines 84-86 turn into a network error.
PageTimeout ==
    /\ pc = "page_fetch"
    /\ timerArmed
    /\ timerArmed' = FALSE
    /\ netInFlight' = netInFlight - 1
    /\ fetchAllFilesThrows("Network error")
    /\ UNCHANGED <<script, fs, run, allFiles, hasNextPage, cursor, page,
                   files, downloaded, total, idx, summary,
                   requests, received, log, fetches, clobbered, fsAtStart, prev>>

\* Lines 73-95: the response headers arrive, the timer is cleared, and the
\* body is read as text (status not ok) or as JSON (status ok).
PageFetchResolves ==
    /\ pc = "page_fetch"
    /\ \E ok \in BOOLEAN : pc' = IF ok THEN "page_json" ELSE "page_text"
    /\ timerArmed' = FALSE
    /\ UNCHANGED <<script, fs, run, exitCode, errMsg, allFiles, hasNextPage, cursor, page,
                   files, downloaded, total, idx, summary, netInFlight, histVars>>

\* Lines 90-93: a non-success status throws, whether or not the body could
\* be read.
PageStatusError ==
    /\ pc = "page_text"
    /\ netInFlight' = netInFlight - 1
    /\ fetchAllFilesThrows("GraphQL error")
    /\ UNCHANGED <<script, fs, run, allFiles, hasNextPage, cursor, page, timerArmed,
                   files, downloaded, total, idx, summary,
                   requests, received, log, fetches, clobbered, fsAtStart, prev>>

\* Line 95: the body is not JSON, or reading it fails.
PageJsonRejects ==
    /\ pc = "page_json"
    /\ netInFlight' = netInFlight - 1
    /\ fetchAllFilesThrows("invalid json")
    /\ UNCHANGED <<script, fs, run, allFiles, hasNextPage, cursor, page, timerArmed,
                   files, downloaded, total, idx, summary,
                   requests, received, log, fetches, clobbered, fsAtStart, prev>>

\* Lines 96-99: the response carries an errors list.
PageGraphQLErrors ==
    /\ pc = "page_json"
    /\ netInFlight' = netInFlight - 1
    /\ fetchAllFilesThrows("Shopify GraphQL query failed")
    /\ UNCHANGED <<script, fs, run, allFiles, hasNextPage, cursor, page, timerArmed,
                   files, downloaded, total, idx, summary,
                   requests, received, log, fetches, clobbered, fsAtStart, prev>>

NodesOf(edges) == [i \in 1..Len(edges) |-> edges[i].node]

\* Mutant of PageConsumed: the cursor is taken from the first edge of the
\* page instead of the last.
PageConsumed_FirstEdgeCursor ==
    /\ pc = "page_json"
    /\ page <= Len(script)
    /\ LET pg == script[page]
           edges == EdgesOf(pg)
       IN  /\ ~(pg.hasNextPage /\ edges = <<>>)
           /\ allFiles' = allFiles \o NodesOf(edges)
           /\ hasNextPage' = pg.hasNextPage
           /\ cursor' = IF pg.hasNextPage THEN edges[1].cursor ELSE NullCursor
    /\ page' = page + 1
    /\ received' = received + 1
    /\ netInFlight' = netInFlight - 1
    /\ pc' = "loop"
    /\ UNCHANGED <<script, fs, run, exitCode, errMsg, timerArmed,
                   files, downloaded, total, idx, summary,
                   requests, enumResult, log, fetches, clobbered, fsAtStart, prev>>

\* Mutant of PageConsumed: the page's nodes replace the accumulated ones
\* instead of being appended.
PageConsumed_Overwrites ==
    /\ pc = "page_json"
    /\ page <= Len(script)
    /\ LET pg == script[page]
           edges == EdgesOf(pg)
       IN  /\ ~(pg.hasNextPage /\ edges = <<>>)
           /\ allFiles' = NodesOf(edges)
           /\ hasNextPage' = pg.hasNextPage
           /\ cursor' = IF pg.hasNextPage THEN edges[Len(edges)].cursor ELSE NullCursor
    /\ page' = page + 1
    /\ received' = received + 1
    /\ netInFlight' = netInFlight - 1
    /\ pc' = "loop"
    /\ UNCHANGED <<script, fs, run, exitCode, errMsg, timerArmed,
                   files, downloaded, total, idx, summary,
                   requests, enumResult, log, fetches, clobbered, fsAtStart, prev>>

\* Lines 101-106 when line 105 can be evaluated: the nodes are appended,
\* hasNextPage is read and the cursor becomes that of the last edge, or null.
PageConsumed ==
    /\ pc = "page_json"
    /\ page <= Len(script)
    /\ LET pg == script[page]
           edges == EdgesOf(pg)
       IN  /\ ~(pg.hasNextPage /\ edges = <<>>)
           /\ allFiles' = allFiles \o NodesOf(edges)
           /\ hasNextPage' = pg.hasNextPage
           /\ cursor' = IF pg.hasNextPage THEN edges[Len(edges)].cursor ELSE NullCursor
    /\ page' = page + 1
    /\ received' = received + 1
    /\ netInFlight' = netInFlight - 1
    /\ pc' = "loop"
    /\ UNCHANGED <<script, fs, run, exitCode, errMsg, timerArmed,
                   files, downloaded, total, idx, summary,
                   requests, enumResult, log, fetches, clobbered, fsAtStart, prev>>

\* Mutant of PageEmptyThrows: the cursor is left as it was when the page has
\* no edge, and the loop goes on.
PageEmptyThrows_KeepsCursor ==
    /\ pc = "page_json"
    /\ page <= Len(script)
    /\ LET pg == script[page]
           edges == EdgesOf(pg)
       IN  /\ pg.hasNextPage /\ edges = <<>>
           /\ allFiles' = allFiles \o NodesOf(edges)
           /\ hasNextPage' = pg.hasNextPage
    /\ page' = page + 1
    /\ received' = received + 1
    /\ netInFlight' = netInFlight - 1
    /\ pc' = "loop"
    /\ UNCHANGED <<script, fs, run, exitCode, errMsg, cursor, timerArmed,
                   files, downloaded, total, idx, summary,
                   requests, enumResult, log, fetches, clobbered, fsAtStart, prev>>

\* Lines 101-105 on a page without edges that announces a next page:
\* edges[edges.length - 1] is undefined and reading its cursor throws a
\* TypeError after hasNextPage has been assigned.
PageEmptyThrows ==
    /\ pc = "page_json"
    /\ page <= Len(script)
    /\ LET pg == script[page]
           edges == EdgesOf(pg)
       IN  /\ pg.hasNextPage /\ edges = <<>>
           /\ allFiles' = allFiles \o NodesOf(edges)
           /\ hasNextPage' = pg.hasNextPage
    /\ received' = received + 1
    /\ netInFlight' = netInFlight - 1
    /\ fetchAllFilesThrows("TypeError")
    /\ UNCHANGED <<script, fs, run, cursor, page, timerArmed,
                   files, downloaded, total, idx, summary,
                   requests, log, fetches, clobbered, fsAtStart, prev>>

\* Lines 29, 109, 191-194 and 145-146: the loop condition is false,
\* fetchAllFiles returns allFiles and the IIFE passes it to downloadFiles.
ReturnAllFiles ==
    /\ pc = "loop"
    /\ ~hasNextPage
    /\ files' = allFiles
    /\ downloaded' = 0
    /\ total' = Len(allFiles)
    /\ idx' = 1
    /\ enumResult' = "returned"
    /\ pc' = "dl_loop"
    /\ UNCHANGED <<script, fs, run, exitCode, errMsg, allFiles, hasNextPage, cursor, page,
                   timerArmed, summary, netInFlight,
                   requests, received, log, fetches, clobbered, fsAtStart, prev>>

\* ------------------------------------------------------- downloadFiles
dlFrame == <<script, run, exitCode, errMsg, allFiles, hasNextPage, cursor, page, timerArmed,
             files, total, summary, requests, received, enumResult, fsAtStart, prev>>

\* The record the for-of loop is at, and lines 149-157 applied to it.
CurFile == files[idx]
CurUrl == resolveFileInfo(CurFile).url
CurPath == FilePathOf(CurFile)

\* Lines 148-153: the record has no URL; warn and continue.
SkipNoUrl ==
    /\ pc = "dl_loop"
    /\ idx <= Len(files)
    /\ ~Truthy(CurUrl)
    /\ log' = Append(log, "nourl")
    /\ idx' = idx + 1
    /\ UNCHANGED <<dlFrame, fs, pc, downloaded, netInFlight, fetches, clobbered>>

\* Mutant of SkipExisting: the existing file is skipped without being counted.
SkipExisting_NotCounted ==
    /\ pc = "dl_loop"
    /\ idx <= Len(files)
    /\ Truthy(CurUrl)
    /\ ExistsSync(CurPath)
    /\ log' = Append(log, "present")
    /\ idx' = idx + 1
    /\ UNCHANGED <<dlFrame, fs, pc, downloaded, netInFlight, fetches, clobbered>>

\* Lines 155-164: something exists at the target path; count it and continue.
SkipExisting ==
    /\ pc = "dl_loop"
    /\ idx <= Len(files)
    /\ Truthy(CurUrl)
    /\ ExistsSync(CurPath)
    /\ downloaded' = downloaded + 1
    /\ log' = Append(log, "present")
    /\ idx' = idx + 1
    /\ UNCHANGED <<dlFrame, fs, pc, netInFlight, fetches, clobbered>>

\* Mutant of IssueContentFetch: the fetch is issued whether or not the
\* target exists.
IssueContentFetch_NoExistenceCheck ==
    /\ pc = "dl_loop"
    /\ idx <= Len(files)
    /\ Truthy(CurUrl)
    /\ fetches' = Append(fetches, idx)
    /\ netInFlight' = netInFlight + 1
    /\ pc' = "content_fetch"
    /\ UNCHANGED <<dlFrame, fs, downloaded, idx, log, clobbered>>

\* Lines 155-167: nothing exists at the target path; the content fetch is
\* issued and awaited.
IssueContentFetch ==
    /\ pc = "dl_loop"
    /\ idx <= Len(files)
    /\ Truthy(CurUrl)
    /\ ~ExistsSync(CurPath)
    /\ fetches' = Append(fetches, idx)
    /\ netInFlight' = netInFlight + 1
    /\ pc' = "content_fetch"
    /\ UNCHANGED <<dlFrame, fs, downloaded, idx, log, clobbered>>

\* Mutant of ContentStatusError: the loop moves on while the response is
\* still open.
ContentStatusError_LeavesOpen ==
    /\ pc = "content_fetch"
    /\ log' = Append(log, "http_fail")
    /\ idx' = idx + 1
    /\ pc' = "dl_loop"
    /\ UNCHANGED <<dlFrame, fs, downloaded, netInFlight, fetches, clobbered>>

\* Lines 168-171: the response status is not ok; log and continue.
ContentStatusError ==
    /\ pc = "content_fetch"
    /\ netInFlight' = netInFlight - 1
    /\ log' = Append(log, "http_fail")
    /\ idx' = idx + 1
    /\ pc' = "dl_loop"
    /\ UNCHANGED <<dlFrame, fs, downloaded, fetches, clobbered>>

\* Mutant of ContentFetchRejects: the catch fetches the same record once
\* more before giving up.
ContentFetchRejects_RetriesOnce ==
    /\ pc = "content_fetch"
    /\ IF Len(fetches) >= 1 /\ fetches[Len(fetches)] = idx
          /\ (Len(fetches) = 1 \/ fetches[Len(fetches) - 1] # idx)
       THEN /\ fetches' = Append(fetches, idx)
            /\ UNCHANGED <<netInFlight, log, idx, pc>>
       ELSE /\ netInFlight' = netInFlight - 1
            /\ log' = Append(log, "fetch_throw")
            /\ idx' = idx + 1
            /\ pc' = "dl_loop"
            /\ UNCHANGED fetches
    /\ UNCHANGED <<dlFrame, fs, downloaded, clobbered>>

\* Lines 167 and 179-181: the fetch rejects; the catch logs and the loop
\* continues.
ContentFetchRejects ==
    /\ pc = "content_fetch"
    /\ netInFlight' = netInFlight - 1
    /\ log' = Append(log, "fetch_throw")
    /\ idx' = idx + 1
    /\ pc' = "dl_loop"
    /\ UNCHANGED <<dlFrame, fs, downloaded, fetches, clobbered>>

\* Lines 167-173: the response is ok; its body is awaited.
ContentFetchResolves ==
    /\ pc = "content_fetch"
    /\ pc' = "content_body"
    /\ UNCHANGED <<dlFrame, fs, downloaded, idx, netInFlight, log, fetches, clobbered>>

\* Lines 173 and 179-181: reading the body rejects.
ContentBodyRejects ==
    /\ pc = "content_body"
    /\ netInFlight' = netInFlight - 1
    /\ log' = Append(log, "body_throw")
    /\ idx' = idx + 1
    /\ pc' = "dl_loop"
    /\ UNCHANGED <<dlFrame, fs, downloaded, fetches, clobbered>>

\* Mutant of SaveFile: the record is counted both before and after the write.
SaveFile_CountsTwice ==
    /\ pc = "content_body"
    /\ netInFlight' = netInFlight - 1
    /\ clobbered' = (clobbered \/ CurPath \in fs)
    /\ fs' = fs \cup {CurPath}
    /\ downloaded' = downloaded + 2
    /\ log' = Append(log, "saved")
    /\ idx' = idx + 1
    /\ pc' = "dl_loop"
    /\ UNCHANGED <<dlFrame, fetches>>

\* Lines 173-178: the body arrives, writeFileSync creates (or truncates) the
\* file at the target path, and the record is counted.
SaveFile ==
    /\ pc = "content_body"
    /\ netInFlight' = netInFlight - 1
    /\ clobbered' = (clobbered \/ CurPath \in fs)
    /\ fs' = fs \cup {CurPath}
    /\ downloaded' = downloaded + 1
    /\ log' = Append(log, "saved")
    /\ idx' = idx + 1
    /\ pc' = "dl_loop"
    /\ UNCHANGED <<dlFrame, fetches>>

\* Mutant of WriteThrows: the write is outside the try block, so its
\* exception leaves downloadFiles and reaches the catch of the IIFE.
WriteThrows_Propagates ==
    /\ pc = "content_body"
    /\ netInFlight' = netInFlight - 1
    /\ \E created \in BOOLEAN :
          /\ fs' = IF created THEN fs \cup {CurPath} ELSE fs
          /\ clobbered' = (clobbered \/ (created /\ CurPath \in fs))
    /\ CatchAtTop("write failed")
    /\ UNCHANGED <<script, run, allFiles, hasNextPage, cursor, page, timerArmed,
                   files, downloaded, total, idx, summary,
                   requests, received, enumResult, log, fetches, fsAtStart, prev>>

\* Lines 174 and 179-181: writeFileSync throws, before the file was opened
\* or after it was created; the catch logs and the loop continues.
WriteThrows ==
    /\ pc = "content_body"
    /\ netInFlight' = netInFlight - 1
    /\ \E created \in BOOLEAN :
          /\ fs' = IF created THEN fs \cup {CurPath} ELSE fs
          /\ clobbered' = (clobbered \/ (created /\ CurPath \in fs))
    /\ log' = Append(log, "write_throw")
    /\ idx' = idx + 1
    /\ pc' = "dl_loop"
    /\ UNCHANGED <<dlFrame, downloaded, fetches>>

\* Lines 184 and 195: the sequence is consumed; the summary is printed,
\* downloadFiles returns and the IIFE ends.
Summarise ==
    /\ pc = "dl_loop"
    /\ idx > Len(files)
    /\ summary' = [printed |-> TRUE, downloaded |-> downloaded, total |-> total]
    /\ pc' = "exited"
    /\ UNCHANGED <<script, fs, run, exitCode, errMsg, allFiles, hasNextPage, cursor, page,
                   timerArmed, files, downloaded, total, idx, netInFlight, histVars>>

FailureOutcomes == {"http_fail", "fetch_throw", "body_throw", "write_throw"}

\* The program is started again on the same catalog and output directory.
Rerun ==
    /\ pc = "exited"
    /\ run = 1
    /\ run' = run + 1
    /\ prev' = [ran |-> TRUE, completed |-> summary.printed, files |-> files,
                downloaded |-> summary.downloaded, fetches |-> Len(fetches),
                failed |-> \E i \in DOMAIN log : log[i] \in FailureOutcomes]
    /\ fsAtStart' = fs
    /\ pc' = "start"
    /\ exitCode' = 0
    /\ errMsg' = "none"
    /\ allFiles' = <<>>
    /\ hasNextPage' = TRUE
    /\ cursor' = NullCursor
    /\ page' = 1
    /\ timerArmed' = FALSE
    /\ files' = <<>>
    /\ downloaded' = 0
    /\ total' = 0
    /\ idx' = 1
    /\ summary' = NoSummary
    /\ netInFlight' = 0
    /\ requests' = <<>>
    /\ received' = 0
    /\ enumResult' = "none"
    /\ log' = <<>>
    /\ fetches' = <<>>
    /\ UNCHANGED <<script, fs, clobbered>>

Next ==
    \/ MissingConfig
    \/ Start
    \/ IssuePageRequest
    \/ PageFetchRejects
    \/ PageTimeout
    \/ PageFetchResolves
    \/ PageStatusError
    \/ PageJsonRejects
    \/ PageGraphQLErrors
    \/ PageConsumed
    \/ PageEmptyThrows
    \/ ReturnAllFiles
    \/ SkipNoUrl
    \/ SkipExisting
    \/ IssueContentFetch
    \/ ContentStatusError
    \/ ContentFetchRejects
    \/ ContentFetchResolves
    \/ ContentBodyRejects
    \/ SaveFile
    \/ WriteThrows
    \/ Summarise
    \/ Rerun

Spec == Init /\ [][Next]_vars

\* =============================================================== claims
Counted(l) == Cardinality({i \in DOMAIN l : l[i] \in {"present", "saved"}})

\* ---------------------------------------------------------------- C1
\* C1 (as stated): whatever the first run ended with, a second run of
\* downloadFiles over the same sequence and output directory issues no
\* content fetch and ends with the first run's downloaded count.
C1_SecondRunFetchesNothing ==
    (run = 2 /\ prev.completed /\ summary.printed /\ files = prev.files)
        => (fetches = <<>> /\ summary.downloaded = prev.downloaded)

\* C1 (amended): when no content fetch and no file write failed in the first
\* run, a second run of downloadFiles over the same sequence and output
\* directory issues no content fetch and ends with the first run's
\* downloaded count.
C1_SecondRunAfterCleanRun ==
    (run = 2 /\ prev.completed /\ ~prev.failed /\ enumResult = "returned" /\ files = prev.files)
        => /\ fetches = <<>>
           /\ summary.printed => summary.downloaded = prev.downloaded

\* A second run has ended after a first run that fetched and saved files.
C1_Witness ==
    /\ run = 2
    /\ prev.completed /\ ~prev.failed /\ prev.fetches >= 2
    /\ summary.printed /\ files = prev.files
    /\ summary.downloaded = prev.downloaded

\* ---------------------------------------------------------------- C2
\* C2: once fetchAllFiles has stopped, if the last page it consumed announced
\* a next page then a further request was issued after it, and if it did not
\* then fetchAllFiles returned with no further request.
C2_LoopFollowsHasNextPage ==
    (enumResult # "none" /\ received > 0)
        => IF script[received].hasNextPage
           THEN Len(requests) > received
           ELSE Len(requests) = received /\ enumResult = "returned"

\* ---------------------------------------------------------------- C3
\* C3: once downloadFiles has been entered nothing reaches the top-level
\* catch, whatever happens to a record (no URL, status not ok, fetch or body
\* rejecting, write throwing); the loop goes on to the next record, and the
\* process ends only after the summary, with every record processed.
C3_DownloadNeverFails ==
    enumResult = "returned"
        => /\ errMsg = "none"
           /\ pc \in {"dl_loop", "content_fetch", "content_body", "exited"}
           /\ pc # "exited" => Len(log) = idx - 1 /\ ~summary.printed
           /\ pc = "exited" => summary.printed /\ Len(log) = Len(files)

\* A run in which the first record's fetch returned a bad status, the second
\* record's write threw, the third was still saved and the summary printed.
C3_Witness ==
    /\ summary.printed
    /\ Len(log) = 3
    /\ log[1] = "http_fail" /\ log[2] = "write_throw" /\ log[3] = "saved"

\* ---------------------------------------------------------------- C4
\* C4: a content fetch or a file write happens in a run only after
\* fetchAllFiles has returned, every request answered and the last page
\* saying there is no next one; after fetchAllFiles has failed, the records
\* already accumulated are never passed on, nothing is fetched and the file
\* system is as the run found it.
C4_FullSequenceHandoff ==
    /\ (fetches # <<>> \/ fs # fsAtStart \/ files # <<>> \/ log # <<>>)
          => /\ enumResult = "returned"
             /\ files = allFiles
             /\ received >= 1 /\ Len(requests) = received
             /\ ~script[received].hasNextPage
    /\ enumResult = "failed"
          => fetches = <<>> /\ fs = fsAtStart /\ files = <<>> /\ log = <<>> /\ pc = "exited"

\* The second page request failed after a first page with a downloadable
\* record had been accumulated.
C4_Witness ==
    /\ enumResult = "failed"
    /\ received = 1 /\ Len(requests) = 2
    /\ \E i \in DOMAIN allFiles : HasUrl(allFiles[i]) /\ FilePathOf(allFiles[i]) \notin fs

\* ---------------------------------------------------------------- C5
\* C5: a process that ended because fetchAllFiles failed has a non-zero exit
\* code.
C5_FailureExitsNonZero ==
    (pc = "exited" /\ enumResult = "failed") => exitCode # 0

\* ---------------------------------------------------------------- C6
\* C6: no step removes a file or writes to a path that holds one; the only
\* change a step makes to the file system is to create the file of the record
\* being processed, at a path that held nothing.
C6_AppendOnly ==
    [][ /\ fs \subseteq fs'
        /\ ~clobbered'
        /\ fs' # fs => /\ pc = "content_body"
                       /\ CurPath \notin fs /\ CurPath \notin Directories
                       /\ fs' = fs \cup {CurPath} ]_vars

\* A record was saved and a later record of the same run, resolving to the
\* same target path, was found present.
C6_Witness ==
    \E i, j \in DOMAIN log :
        /\ i < j
        /\ log[i] = "saved" /\ log[j] = "present"
        /\ FilePathOf(files[i]) = FilePathOf(files[j])
        /\ files[i] # files[j]

\* ---------------------------------------------------------------- C7
FiveKinds == {"GenericFile", "MediaImage", "Video", "ExternalVideo", "Model3d"}
FiveKindsAsClaimed == {"GenericFile", "MediaImage", "Video", "ExternalVideo", "Model3D"}

\* The documented table: folder and URL field of a recognised kind.
DocumentedFolder(k) ==
    CASE k = "GenericFile" -> "generic"
      [] k = "MediaImage" -> "images"
      [] k = "Video" -> "videos"
      [] k = "ExternalVideo" -> "external"
      [] k \in {"Model3d", "Model3D"} -> "models"

DocumentedUrl(f) ==
    CASE f.__typename = "GenericFile" -> f.url
      [] f.__typename = "MediaImage" -> f.image_url
      [] f.__typename = "ExternalVideo" -> f.embeddedUrl
      [] f.__typename \in {"Video", "Model3d", "Model3D"} -> f.originalSource_url

\* Record i of the sequence is classified as documented, given the set of
\* recognised kinds and the set of unrecognised ones; a record of an
\* unrecognised kind is classified unknown without URL and, once processed,
\* was skipped.
ClassifiedAsDocumented(i, kinds, others) ==
    LET f == files[i]
        info == resolveFileInfo(f)
    IN  IF f.__typename \in kinds
        THEN /\ info.folder = DocumentedFolder(f.__typename)
             /\ info.url = DocumentedUrl(f)
             /\ (i <= Len(log) /\ log[i] = "saved")
                   => PathJoin(OUTPUT_DIR, DocumentedFolder(f.__typename),
                               FileNameOf(DocumentedUrl(f))) \in fs
        ELSE f.__typename \in others
                => /\ info.folder = "unknown"
                   /\ info.url = Null
                   /\ i <= Len(log) => log[i] = "nourl"

\* C7 (as stated): GenericFile, MediaImage, Video, ExternalVideo and Model3D
\* map to their documented folder and URL field; a kind outside the declared
\* ones (in either spelling) maps to unknown without URL and is skipped.
C7_ClassificationAsClaimed ==
    \A i \in DOMAIN files :
        ClassifiedAsDocumented(i, FiveKindsAsClaimed, TypeNames \ (FiveKinds \cup FiveKindsAsClaimed))

\* C7 (amended): GenericFile, MediaImage, Video, ExternalVideo and Model3d
\* (the spelling of the API) map to their documented folder and URL field; any
\* other kind, "Model3D" included, maps to unknown without URL and is skipped,
\* and downloadFiles goes on without failing.
C7_Classification ==
    /\ \A i \in DOMAIN files : ClassifiedAsDocumented(i, FiveKinds, TypeNames \ FiveKinds)
    /\ files # <<>> => errMsg = "none"

\* A 3D model whose direct url field is also set was saved under models from
\* its originalSource url.
C7_Witness ==
    /\ Len(log) = 1 /\ log[1] = "saved"
    /\ files[1].__typename = "Model3d"
    /\ files[1].url # Null /\ files[1].originalSource_url # Null
    /\ OUTPUT_DIR \o << <<"models">>, files[1].originalSource_url >> \in fs

\* ---------------------------------------------------------------- C8
ExampleThree ==
    << Node("GenericFile", NullCursor, UrlA, Null, Null, Null),
       Node("MediaImage", NullCursor, Null, Null, Null, Null),
       Node("ExternalVideo", NullCursor, Null, Null, Null, UrlY) >>

\* C8: at the final summary total is the length of the input and downloaded
\* is the number of records that had a URL and were found present or were
\* fetched with success and written; records without URL and records whose
\* fetch or write failed are not counted.  Three records of which one has no
\* URL give 2 of 3 when nothing fails; two records with URL of which one
\* gets a bad status give 1 of 2.
C8_ProgressAccounting ==
    summary.printed
        => /\ summary.total = Len(files)
           /\ Len(log) = Len(files)
           /\ \A i \in DOMAIN log : (log[i] = "nourl") <=> ~HasUrl(files[i])
           /\ summary.downloaded = Counted(log)
           /\ (files = ExampleThree /\ \A i \in DOMAIN log : log[i] \notin FailureOutcomes)
                 => summary.downloaded = 2 /\ summary.total = 3
           /\ (Len(files) = 2 /\ (\A i \in 1..2 : HasUrl(files[i]))
               /\ \E i, j \in 1..2 : i # j /\ log[i] = "http_fail" /\ log[j] \notin FailureOutcomes)
                 => summary.downloaded = 1 /\ summary.total = 2

\* Two records: one found present, the other answered with a bad status.
C8_Witness ==
    /\ summary.printed
    /\ Len(log) = 2
    /\ log[1] = "present" /\ log[2] = "http_fail"
    /\ summary.downloaded = 1 /\ summary.total = 2

RECURSIVE BeforeQuery(_)
BeforeQuery(s) ==
    IF s = <<>> \/ Head(s) = "?" THEN <<>> ELSE <<Head(s)>> \o BeforeQuery(Tail(s))

\* The part of s after its final "/" (all of s when it has none).
RECURSIVE AfterFinalSeparator(_)
AfterFinalSeparator(s) ==
    IF \A i \in DOMAIN s : s[i] # "/" THEN s ELSE AfterFinalSeparator(Tail(s))

\* s without its trailing "/"s.
RECURSIVE WithoutTrailingSeparators(_)
WithoutTrailingSeparators(s) ==
    IF s # <<>> /\ s[Len(s)] = "/" THEN WithoutTrailingSeparators(SubSeq(s, 1, Len(s) - 1))
    ELSE s

\* outputDir/category/name as a path: an empty name or "." names the
\* category directory, ".." its parent.
TargetPath(folder, name) ==
    IF name \in {<<>>, <<".">>} THEN OUTPUT_DIR \o << <<folder>> >>
    ELSE IF name = <<".", ".">> THEN OUTPUT_DIR
    ELSE OUTPUT_DIR \o << <<folder>>, name >>

\* C10 (as stated): the file name of a record is what follows the final path
\* separator of the part of its URL before the first "?", and the target path
\* is outputDir/category/fileName.
C10_FileNameAsClaimed ==
    \A i \in DOMAIN files :
        HasUrl(files[i]) =>
            LET info == resolveFileInfo(files[i])
                name == AfterFinalSeparator(BeforeQuery(info.url))
            IN  /\ FileNameOf(info.url) = name
                /\ FilePathOf(files[i]) = TargetPath(info.folder, name)

\* C10 (amended): the file name of a record is the last non-empty path
\* segment of the part of its URL before the first "?" (trailing separators
\* are ignored; empty when there is no such segment), so that
\* https://cdn.example.com/path/image.png?v=123 yields image.png; the target
\* path is outputDir/category/fileName, and a saved record's file is at that
\* path.
C10_FileName ==
    /\ FileNameOf(UrlExample) = <<"image.png">>
    /\ \A i \in DOMAIN files :
        HasUrl(files[i]) =>
            LET info == resolveFileInfo(files[i])
                name == AfterFinalSeparator(WithoutTrailingSeparators(BeforeQuery(info.url)))
                path == TargetPath(info.folder, name)
            IN  /\ FileNameOf(info.url) = name
                /\ FilePathOf(files[i]) = path
                /\ (i <= Len(log) /\ log[i] = "saved") => path \in fs

\* The example URL was fetched and saved as generic/image.png.
C10_Witness ==
    /\ Len(log) = 1 /\ log[1] = "saved"
    /\ files[1].url = UrlExample
    /\ OUTPUT_DIR \o << <<"generic">>, <<"image.png">> >> \in fs

\* --------------------------------------------------------------- C11
\* C11: the first page request carries the null cursor, every later request
\* carries the cursor of the last edge of the page answered just before it,
\* and the cursor is null once a page has said there is no next page.
C11_CursorProtocol ==
    /\ \A k \in DOMAIN requests :
          requests[k] = IF k = 1 THEN NullCursor
                        ELSE LET es == script[k - 1].edges IN es[Len(es)].cursor
    /\ Len(requests) \in {received, received + 1}
    /\ (received >= 1 /\ ~script[received].hasNextPage) => cursor = NullCursor
    /\ ~hasNextPage => cursor = NullCursor

\* Two requests were made, the second one with the cursor of the second
\* (last) edge of the first page, and the enumeration has returned.
C11_Witness ==
    /\ enumResult = "returned"
    /\ requests = <<NullCursor, <<1, 2>> >>
    /\ cursor = NullCursor

\* --------------------------------------------------------------- C12
\* The nodes of the first n pages of the script, page after page, each page's
\* nodes in the order of its edges.
RECURSIVE NodesOfFirstPages(_)
NodesOfFirstPages(n) ==
    IF n = 0 THEN <<>>
    ELSE LET pg == script[n]
             es == IF pg.edgesNull THEN <<>> ELSE pg.edges
         IN  NodesOfFirstPages(n - 1) \o [i \in 1..Len(es) |-> es[i].node]

\* C12: what fetchAllFiles has accumulated is always the concatenation, in
\* request order, of the nodes of the pages answered so far, and what it
\* returns is that concatenation for all the pages it fetched: every node
\* once, in the order served.
C12_Accumulation ==
    /\ enumResult # "failed" /\ pc # "start" => allFiles = NodesOfFirstPages(received)
    /\ enumResult = "returned"
          => /\ files = NodesOfFirstPages(received)
             /\ received = Len(requests)
             /\ (\A i \in DOMAIN files : files[i].id # NullCursor)
                   => \A i, j \in DOMAIN files : i # j => files[i] # files[j]

\* Two pages of two edges each were fetched and their four nodes returned.
C12_Witness ==
    /\ enumResult = "returned"
    /\ received = 2
    /\ Len(files) = 4
    /\ files[3].id = <<2, 1>>

\* --------------------------------------------------------------- C13
\* C13: a page request is guarded by the abort timer for as long as it is in
\* flight, until its response has been received and parsed.
C13_TimerGuardsRequest ==
    pc \in {"page_fetch", "page_text", "page_json"} => timerArmed

\* --------------------------------------------------------------- C14
\* What holds of the counters in a state of downloadFiles.
CountersInRange ==
    /\ total = Len(files)
    /\ 0 <= downloaded
    /\ downloaded <= Len(log)
    /\ Len(log) <= total

\* C14: total is the input length from the entry of downloadFiles on and no
\* step changes it; no step decreases downloaded, a step raises it by at most
\* the number of records it processed (one), and always
\* 0 <= downloaded <= records processed <= total.
C14_CounterInvariant ==
    [][ /\ enumResult' = "returned" => CountersInRange'
        /\ (enumResult = "returned" /\ enumResult' = "returned")
              => /\ total' = total
                 /\ files' = files
                 /\ downloaded' >= downloaded
                 /\ downloaded' - downloaded <= Len(log') - Len(log)
                 /\ Len(log') - Len(log) \in {0, 1} ]_vars

\* A run ended with some records counted and downloaded below total.
C14_Witness ==
    /\ summary.printed
    /\ summary.total = 3
    /\ summary.downloaded = 1
    /\ downloaded = 1 /\ total = 3

\* --------------------------------------------------------------- C15
FetchFailures == {"http_fail", "fetch_throw", "body_throw"}

\* C15: in one run no record is fetched twice (the fetched positions strictly
\* increase and never lie ahead of the loop), and the step on which a
\* record's fetch ends with a bad status or an exception moves on to the next
\* record without counting it and without creating a file: nothing is at its
\* target path then.
C15_SingleAttempt ==
    [][ /\ \A k \in DOMAIN fetches' :
              /\ k > 1 => fetches'[k - 1] < fetches'[k]
              /\ fetches'[k] <= idx'
              /\ fetches'[k] = idx' => pc' \in {"content_fetch", "content_body"}
        /\ (Len(log') = Len(log) + 1 /\ log'[Len(log')] \in FetchFailures)
              => /\ Len(fetches) >= 1 /\ fetches[Len(fetches)] = idx
                 /\ fetches' = fetches
                 /\ idx' = idx + 1
                 /\ downloaded' = downloaded
                 /\ fs' = fs
                 /\ FilePathOf(files[idx]) \notin fs' ]_vars

\* A run ended in which the first record's fetch raised, the second's got a
\* bad status and the third was saved: three fetches, one per record.
C15_Witness ==
    /\ summary.printed
    /\ log = <<"fetch_throw", "http_fail", "saved">>
    /\ fetches = <<1, 2, 3>>
    /\ summary.downloaded = 1

\* --------------------------------------------------------------- C16
\* The record has no URL: its type is not one the classifier knows, or the
\* URL field of its type is missing or empty.
AbsentUrl(f) ==
    \/ f.__typename \notin FiveKinds
    \/ DocumentedUrl(f) \in {Null, <<>>}

\* C16: the step that processes a record without URL issues no fetch and
\* changes no file, no fetch is ever issued for such a record, and no step
\* creates a file under outputDir/unknown.
C16_NoUrlNoEffect ==
    [][ /\ (Len(log') = Len(log) + 1 /\ AbsentUrl(files[Len(log')]))
              => /\ log'[Len(log')] = "nourl"
                 /\ fs' = fs
                 /\ fetches' = fetches
                 /\ netInFlight' = 0 /\ netInFlight = 0
                 /\ downloaded' = downloaded
        /\ \A k \in DOMAIN fetches' : ~AbsentUrl(files'[fetches'[k]])
        /\ \A p \in fs' \ fs : Len(p) = 3 /\ p[2] # <<"unknown">> ]_vars

\* A record of an unrecognised type that carries a direct url was skipped.
C16_Witness ==
    /\ log = <<"nourl">>
    /\ files[1].__typename = "SomethingElse"
    /\ files[1].url # Null
    /\ summary.printed
    /\ fs = fsAtStart /\ fetches = <<>>

\* --------------------------------------------------------------- C17
\* The records counted in downloaded.
CountedRecords == {i \in DOMAIN log : log[i] \in {"present", "saved"}}

\* Every record with a URL has a file name that names a file in its
\* category directory (not empty, "." or "..").
OrdinaryNames ==
    \A i \in DOMAIN files :
        HasUrl(files[i]) => FileNameOf(resolveFileInfo(files[i]).url) \notin {<<>>, <<".">>, <<".", ".">>}

\* C17: after a run of downloadFiles over pairwise distinct records that
\* started from an empty output tree (and in which no write failed), the
\* number of files equals downloaded and each counted record has its own
\* file at its target path.
C17_OneFilePerCountedRecord ==
    (run = 1 /\ fsAtStart = {} /\ summary.printed /\ OrdinaryNames
     /\ (\A i, j \in DOMAIN files : i # j => files[i] # files[j])
     /\ \A i \in DOMAIN log : log[i] # "write_throw")
        => /\ Cardinality(fs) = summary.downloaded
           /\ \A i \in CountedRecords : FilePathOf(files[i]) \in fs
           /\ \A i, j \in CountedRecords : i # j => FilePathOf(files[i]) # FilePathOf(files[j])

\* --------------------------------------------------------------- C18
\* The target path of a record with a URL, from the documented table.
DocumentedTarget(f) ==
    TargetPath(DocumentedFolder(f.__typename),
               AfterFinalSeparator(WithoutTrailingSeparators(BeforeQuery(DocumentedUrl(f)))))

\* The record has a URL and nothing exists at its target path.
NeedsFetch(f) ==
    /\ ~AbsentUrl(f)
    /\ DocumentedTarget(f) \notin fs
    /\ DocumentedTarget(f) \notin Directories

\* C18: the step that takes up a record issues a content fetch for it if
\* and only if the record has a URL and nothing exists at its target path at
\* that moment; otherwise it moves on without a fetch, counting the record
\* when it has a URL.  This holds in a first run from any output tree and in
\* the run after it.
C18_FetchIffMissing ==
    [][ (pc = "dl_loop" /\ idx <= Len(files))
          => IF NeedsFetch(files[idx])
             THEN /\ fetches' = Append(fetches, idx)
                  /\ pc' = "content_fetch"
                  /\ idx' = idx /\ log' = log /\ downloaded' = downloaded
             ELSE /\ fetches' = fetches
                  /\ pc' = "dl_loop"
                  /\ idx' = idx + 1
                  /\ log' = Append(log, IF AbsentUrl(files[idx]) THEN "nourl" ELSE "present")
                  /\ downloaded' = downloaded + (IF AbsentUrl(files[idx]) THEN 0 ELSE 1) ]_vars

\* A second run, after a run in which every fetch failed, has fetched the
\* first record again and saved it, and has counted the next record, which
\* resolves to the same target path, as present without a fetch.
C18_Witness ==
    /\ run = 2
    /\ prev.completed /\ prev.failed /\ prev.fetches = 2 /\ prev.downloaded = 0
    /\ fsAtStart = {}
    /\ log = <<"saved", "present">>
    /\ fetches = <<1>>
    /\ files[1] # files[2]

\* --------------------------------------------------------------- C19
\* C19: once a page without edges that announces a next page has been
\* answered, fetchAllFiles has thrown and the run is over: no request was
\* issued after that page, nothing was returned to downloadFiles and nothing
\* was fetched.
C19_EmptyPageAborts ==
    (received >= 1 /\ script[received].hasNextPage
     /\ (script[received].edgesNull \/ script[received].edges = <<>>))
        => /\ pc = "exited"
           /\ enumResult = "failed"
           /\ errMsg = "TypeError"
           /\ Len(requests) = received
           /\ files = <<>> /\ log = <<>> /\ fetches = <<>>
           /\ ~summary.printed

\* The second page had no edges and announced a third: the run ended with
\* the first page's records accumulated and not used.
C19_Witness ==
    /\ received = 2
    /\ script[2].hasNextPage /\ script[2].edges = <<>>
    /\ allFiles # <<>>
    /\ pc = "exited" /\ errMsg = "TypeError"

====
